---- MODULE Spec2Model ----
(***************************************************************************)
(* Model of src/Shapes.py: the shape classes (Shape, Ellipse, Circle,      *)
(* Rectangle), the ShapeFactory registry, the feasibility calculator       *)
(* (determine_max_radius, determine_radius, is_location_inside_square),    *)
(* the circle intersection test and the ExportInclusions report.           *)
(*                                                                         *)
(* Numbers.  Coordinates, radii and buffers of the geometric part are      *)
(* integers counted in grid steps; the container's side "1" is Unit steps. *)
(* The feasibility calculator divides, so its numbers are exact rationals  *)
(* <<numerator, denominator>> with a positive denominator.  Both are exact *)
(* real arithmetic: floating-point rounding is not modelled.               *)
(***************************************************************************)
EXTENDS Integers, Sequences, FiniteSets, TLC

VARIABLES
    op,         \* name of the last operation executed ("init" before any)
    args,       \* the arguments of that call
    ret,        \* its outcome: [tag |-> "return" | "raise" | "none", value |-> ...]
    circles,    \* the collection of shapes handed to check_intersect / ExportInclusions
    buffersize, \* the buffer of the placement run, in grid steps
    factories,  \* ShapeFactory.factories: kind name -> Factory instance
    self,       \* the Circle object whose radius property is exercised
    assigned    \* history: the radius most recently given to self

vars == <<op, args, ret, circles, buffersize, factories, self, assigned>>

-----------------------------------------------------------------------------
(* Bounds *)

GridMax == 1        \* centres of the intersection test range over (0..GridMax)^2
MaxRadius == 1      \* radii of the intersection test range over 0..MaxRadius
MaxLen == 2         \* longest collection handed to check_intersect
Unit == 6           \* grid steps in the container's side
MaxPlaceRadius == 2 \* candidates of the placement run have radius 1..MaxPlaceRadius
MaxBuffer == 1      \* placement buffers range over 0..MaxBuffer
MaxCircles == 3     \* the placement run stops after this many accepted circles
MaxBufNum == 5      \* buffer sizes are b/d with b in -1..MaxBufNum, d in BufDens
MaxN == 5           \* numcircles ranges over 1..MaxN
MaxScaleNum == 4    \* scale factors are s/2 with s in -2..MaxScaleNum
MaxRadNum == 3      \* max_radius arguments are m/100 with m in -1..MaxRadNum
DrawDen == 4        \* random() yields k/DrawDen
MaxShapes == 2      \* longest collection handed to ExportInclusions
MaxCentre == 2      \* the Circle object's centre ranges over (0..MaxCentre)^2
MaxValue == 2       \* radii given to the Circle object range over 0..MaxValue

-----------------------------------------------------------------------------
(* Outcomes of a call *)

Return(v) == [tag |-> "return", value |-> v]
Raise(e) == [tag |-> "raise", value |-> e]
NoCall == [tag |-> "none", value |-> "none"]

Abs(x) == IF x < 0 THEN -x ELSE x

-----------------------------------------------------------------------------
(* Shape model *)

\* Shape.__init__ / Ellipse.__init__: the fields of an ellipse object
Ellipse(material, centre, short_axis, long_axis, angle) ==
    [kind |-> "Ellipse", material |-> material, centre |-> centre,
     short_axis |-> short_axis, long_axis |-> long_axis, angle |-> angle]

\* Circle.__init__: an ellipse with both axes equal to radius, angle defaulted
Circle(material, centre, radius) ==
    [Ellipse(material, centre, radius, radius, 0) EXCEPT !.kind = "Circle"]

\* Circle.radius getter
Radius(c) == c.short_axis

\* Circle.radius setter, with the mutation that forgets the long axis
SetRadiusShortOnly(c, value) == [c EXCEPT !.short_axis = value]

SetRadius(c, value) == [c EXCEPT !.short_axis = value, !.long_axis = value]

-----------------------------------------------------------------------------
(* Intersection engine: Circle.check_intersect *)

\* (x1-x2)**2 + (y1-y2)**2, the argument of math.sqrt
SquaredDistance(p, q) == (p[1] - q[1]) * (p[1] - q[1]) + (p[2] - q[2]) * (p[2] - q[2])

\* math.sqrt(d2) > s for a real s
SqrtGreater(d2, s) == s < 0 \/ d2 > s * s

\* math.sqrt(d2) <= s for a real s
SqrtAtMost(d2, s) == s >= 0 /\ d2 <= s * s

\* the loop body's test "centre_distance > self.radius + circle.radius",
\* with the boundary taken as clear
ClearOfTouching(c, circle) ==
    LET s == Radius(c) + Radius(circle)
    IN  s < 0 \/ SquaredDistance(c.centre, circle.centre) >= s * s

ClearOf(c, circle) ==
    SqrtGreater(SquaredDistance(c.centre, circle.centre), Radius(c) + Radius(circle))

RECURSIVE check_intersect(_, _)
check_intersect(c, cs) ==
    IF cs = <<>> THEN FALSE
    ELSE LET circle == Head(cs)
         IN  IF ClearOf(c, circle) THEN check_intersect(c, Tail(cs))
             ELSE IF SqrtAtMost(SquaredDistance(c.centre, circle.centre),
                                Abs(Radius(c) - Radius(circle)))
                  THEN TRUE
                  ELSE TRUE

\* the mutation that drops the y comparison
is_location_inside_square_x_only(c, buffer) ==
    ~ (c.centre[1] - Radius(c) < buffer \/ c.centre[1] + Radius(c) > Unit - buffer)

\* Circle.is_location_inside_square; the literal 1 is Unit grid steps
is_location_inside_square(c, buffer) ==
    IF c.centre[1] - Radius(c) < buffer \/ c.centre[1] + Radius(c) > Unit - buffer
    THEN FALSE
    ELSE IF c.centre[2] - Radius(c) < buffer \/ c.centre[2] + Radius(c) > Unit - buffer
         THEN FALSE
         ELSE TRUE

-----------------------------------------------------------------------------
(* Specification of the intersection test: any candidate, any collection *)

Material == "M"

GridCircles == { Circle(Material, <<x, y>>, r) : x \in 0..GridMax, y \in 0..GridMax, r \in 0..MaxRadius }

SeqsUpTo(S, n) == UNION { [1..k -> S] : k \in 0..n }

Idle ==
    /\ op = "init"
    /\ args = <<>>
    /\ ret = NoCall

InitIntersect ==
    /\ Idle
    /\ circles \in SeqsUpTo(GridCircles, MaxLen)
    /\ buffersize = 0
    /\ factories = <<>>
    /\ self = Circle(Material, <<0, 0>>, 0)
    /\ assigned = 0

CheckIntersect(c) ==
    /\ op' = "check_intersect"
    /\ args' = <<c>>
    /\ ret' = Return(check_intersect(c, circles))
    /\ UNCHANGED <<circles, buffersize, factories, self, assigned>>

NextIntersect == \E c \in GridCircles : CheckIntersect(c)

SpecIntersect == InitIntersect /\ [][NextIntersect]_vars

\* C1: check_intersect on c over collection S is true iff some s in S has its
\* centre at distance <= c.radius + s.radius from c's centre (touching and
\* containment included), false otherwise (the empty collection too), and the
\* answer is the same for every ordering of S.
Touches(c, s) ==
    SquaredDistance(c.centre, s.centre) <= (Radius(c) + Radius(s)) * (Radius(c) + Radius(s))

Permutation(S, p) == [i \in 1..Len(S) |-> S[p[i]]]

-----------------------------------------------------------------------------
(* Specification of a placement run: the driver builds a candidate, rejects *)
(* it if it leaves the buffered square or collides with the accepted set,   *)
(* and appends it otherwise.  circles is the accepted set.                  *)

UnitCircles == { Circle(Material, <<x, y>>, r) : x \in 0..Unit, y \in 0..Unit, r \in 1..MaxPlaceRadius }

InitPlacement ==
    /\ Idle
    /\ circles = <<>>
    /\ buffersize \in 0..MaxBuffer
    /\ factories = <<>>
    /\ self = Circle(Material, <<0, 0>>, 0)
    /\ assigned = 0

\* one trial of the driver's rejection sampling; the candidate c is local to
\* the trial
Place(c) ==
    /\ Len(circles) < MaxCircles
    /\ op' = "place"
    /\ args' = <<>>
    /\ IF is_location_inside_square(c, buffersize) /\ ~ check_intersect(c, circles)
       THEN /\ circles' = Append(circles, c)
            /\ ret' = Return("accepted")
       ELSE /\ circles' = circles
            /\ ret' = Return("rejected")
    /\ UNCHANGED <<buffersize, factories, self, assigned>>

NextPlacement == \E c \in UnitCircles : Place(c)

SpecPlacement == InitPlacement /\ [][NextPlacement]_vars

\* C2: every accepted set of a placement run is valid: each accepted circle
\* lies inside the square shrunk by the buffer on all four sides, and any two
\* distinct accepted circles have centres further apart than the sum of their
\* radii; a rejected candidate leaves the accepted set as it was.
InsideBufferedSquare(c) ==
    /\ c.centre[1] - Radius(c) >= buffersize
    /\ c.centre[1] + Radius(c) <= Unit - buffersize
    /\ c.centre[2] - Radius(c) >= buffersize
    /\ c.centre[2] + Radius(c) <= Unit - buffersize

Apart(c, d) ==
    SquaredDistance(c.centre, d.centre) > (Radius(c) + Radius(d)) * (Radius(c) + Radius(d))

ValidAcceptedSet(cs) ==
    /\ \A i \in 1..Len(cs) : InsideBufferedSquare(cs[i])
    /\ \A i, j \in 1..Len(cs) : i # j => Apart(cs[i], cs[j])

C2_AcceptedSetValid ==
    [][ /\ ValidAcceptedSet(circles')
        /\ (ret'.value = "rejected" => circles' = circles) ]_vars

\* two circles of positive radius accepted under a positive buffer, and a
\* later candidate rejected
C2_Witness ==
    /\ op = "place"
    /\ Len(circles) = 2
    /\ Radius(circles[1]) > 0
    /\ Radius(circles[2]) > 0
    /\ buffersize > 0
    /\ ret.value = "rejected"

-----------------------------------------------------------------------------
(* Exact rationals <<numerator, denominator>>, denominator > 0 *)

RECURSIVE GCD(_, _)
GCD(m, n) == IF n = 0 THEN m ELSE GCD(n, m % n)

\* lowest terms; the value is unchanged
RNorm(a) ==
    LET g == GCD(Abs(a[1]), a[2])
    IN  <<a[1] \div g, a[2] \div g>>

RInt(i) == <<i, 1>>
RAdd(a, b) == RNorm(<<a[1] * b[2] + b[1] * a[2], a[2] * b[2]>>)
RSub(a, b) == RNorm(<<a[1] * b[2] - b[1] * a[2], a[2] * b[2]>>)
RMul(a, b) == RNorm(<<a[1] * b[1], a[2] * b[2]>>)
RDivInt(a, n) == RNorm(<<a[1], a[2] * n>>)      \* n > 0
REq(a, b) == a[1] * b[2] = b[1] * a[2]
RLess(a, b) == a[1] * b[2] < b[1] * a[2]
RLeq(a, b) == a[1] * b[2] <= b[1] * a[2]

-----------------------------------------------------------------------------
(* Feasibility calculator *)

\* the capacity test with the boundary taken as infeasible
CapacityExceededInclusive(buffer, numcircles) ==
    RLeq(RInt(1), RAdd(RMul(buffer, RInt(2)), RMul(RInt(numcircles - 1), buffer)))

\* buffersize*2 + (numcircles-1)*buffersize > 1
CapacityExceeded(buffer, numcircles) ==
    RLess(RInt(1), RAdd(RMul(buffer, RInt(2)), RMul(RInt(numcircles - 1), buffer)))

\* the radius formula with one buffer forgotten
MaxRadiusValueOneBufferShort(buffer, numcircles, scalefactor) ==
    RMul(RDivInt(RDivInt(RSub(RInt(1), RMul(buffer, RInt(numcircles))),
                         numcircles), 2), scalefactor)

\* the radius formula multiplying by numcircles where it should divide
MaxRadiusValueTimesN(buffer, numcircles, scalefactor) ==
    RMul(RDivInt(RMul(RSub(RSub(RInt(1), buffer), RMul(buffer, RInt(numcircles))),
                      RInt(numcircles)), 2), scalefactor)

\* (((1 - buffersize - buffersize * numcircles) / numcircles) / 2) * scalefactor
MaxRadiusValue(buffer, numcircles, scalefactor) ==
    RMul(RDivInt(RDivInt(RSub(RSub(RInt(1), buffer), RMul(buffer, RInt(numcircles))),
                         numcircles), 2), scalefactor)

determine_max_radius(buffer, numcircles, scalefactor) ==
    IF CapacityExceeded(buffer, numcircles)
    THEN Raise("ArithmeticError")
    ELSE Return(MaxRadiusValue(buffer, numcircles, scalefactor))

\* the lower end 0.01 of the random radius
MinRadius == <<1, 100>>

\* uniform with the lower end not subtracted from the span
uniform_full_span(a, b, k) == RAdd(a, RMul(b, <<k, DrawDen>>))

\* random.uniform(a, b) = a + (b-a) * random(), random() = k/DrawDen
uniform(a, b, k) == RAdd(a, RMul(RSub(b, a), <<k, DrawDen>>))

determine_radius(max_radius, equalsize, k) ==
    IF equalsize THEN max_radius ELSE uniform(MinRadius, max_radius, k)

-----------------------------------------------------------------------------
(* Specification of the feasibility calculator: calls with any arguments *)

BufDens == {4, 20}
Buffers == { <<b, d>> : b \in -1..MaxBufNum, d \in BufDens }
Scales == { <<sc, 2>> : sc \in -2..MaxScaleNum }
MaxRadii == { <<m, 100>> : m \in -1..MaxRadNum }

\* random() lies in [0, 1); rounding of a + (b-a)*random() can reach b,
\* which is the draw k = DrawDen
Draws == 0..DrawDen

InitRadius ==
    /\ Idle
    /\ circles = <<>>
    /\ buffersize = 0
    /\ factories = <<>>
    /\ self = Circle(Material, <<0, 0>>, 0)
    /\ assigned = 0

DetermineMaxRadius(buffer, numcircles, scalefactor) ==
    /\ op' = "determine_max_radius"
    /\ args' = <<buffer, numcircles, scalefactor>>
    /\ ret' = determine_max_radius(buffer, numcircles, scalefactor)
    /\ UNCHANGED <<circles, buffersize, factories, self, assigned>>

\* max_radius is any value, or the radius determine_max_radius just returned
DetermineRadius(max_radius, equalsize, k) ==
    /\ op' = "determine_radius"
    /\ args' = <<max_radius, equalsize>>
    /\ ret' = Return(determine_radius(max_radius, equalsize, k))
    /\ UNCHANGED <<circles, buffersize, factories, self, assigned>>

NextRadius ==
    \/ \E buffer \in Buffers, numcircles \in 1..MaxN, scalefactor \in Scales :
          DetermineMaxRadius(buffer, numcircles, scalefactor)
    \/ \E max_radius \in MaxRadii
                         \cup (IF op = "determine_max_radius" /\ ret.tag = "return"
                               THEN {ret.value} ELSE {}),
          equalsize \in BOOLEAN, k \in Draws :
          DetermineRadius(max_radius, equalsize, k)

SpecRadius == InitRadius /\ [][NextRadius]_vars

IsMaxRadiusCall == op = "determine_max_radius"

\* C3 as stated: determine_max_radius raises exactly when buffer*(n+2) > 1
\* (buffer >= 0, n >= 1).
C3_RaisesIffBufferTimesNPlus2 ==
    (IsMaxRadiusCall /\ args[1][1] >= 0) =>
        ((ret.tag = "raise") <=> RLess(RInt(1), RMul(args[1], RInt(args[2] + 2))))

\* C3 amended: determine_max_radius raises exactly when buffer*(n+1) > 1; at
\* the boundary buffer*(n+1) = 1 it returns a radius.
C3_RaisesIffBufferTimesNPlus1 ==
    (IsMaxRadiusCall /\ args[1][1] >= 0) =>
        ((ret.tag = "raise") <=> RLess(RInt(1), RMul(args[1], RInt(args[2] + 1))))

\* a call at the boundary buffer*(n+1) = 1 that returned
C3_Witness ==
    /\ IsMaxRadiusCall
    /\ args[1][1] > 0
    /\ REq(RMul(args[1], RInt(args[2] + 1)), RInt(1))
    /\ ret.tag = "return"

\* C4: a returned radius equals ((1 - buffer - buffer*n)/n)/2*scale; with
\* scale 1 it is non-negative and n circles of that radius in a row with n+1
\* gaps of width buffer fill the unit length exactly; buffer 0.05 with n = 4
\* gives 0.09375.
C4_MaxRadiusFormula ==
    (IsMaxRadiusCall /\ ret.tag = "return" /\ args[1][1] >= 0) =>
        LET bn == args[1][1]
            bd == args[1][2]
            n == args[2]
            sc == args[3]
            r == ret.value
        IN  /\ REq(r, <<(bd - bn * (n + 1)) * sc[1], 2 * n * bd * sc[2]>>)
            /\ REq(sc, RInt(1)) =>
                  /\ RLeq(RInt(0), r)
                  /\ REq(RAdd(RMul(RInt(2 * n), r), RMul(RInt(n + 1), args[1])), RInt(1))
            /\ (REq(args[1], <<5, 100>>) /\ n = 4 /\ REq(sc, RInt(1))) =>
                  REq(r, <<9375, 100000>>)

\* the call determine_max_radius(0.05, 4, 1) returned
C4_Witness ==
    /\ IsMaxRadiusCall
    /\ REq(args[1], <<5, 100>>)
    /\ args[2] = 4
    /\ REq(args[3], RInt(1))
    /\ ret.tag = "return"

LaterCallsNoLarger ==
    \A n2 \in (args[2] + 1)..(MaxN + 1) :
        LET other == determine_max_radius(args[1], n2, args[3])
        IN  other.tag = "return" => RLeq(other.value, ret.value)

\* C5 as stated: for all buffer and scale, determine_max_radius does not grow
\* with n wherever both calls return.
C5_MonotoneForAllScale ==
    (IsMaxRadiusCall /\ ret.tag = "return") => LaterCallsNoLarger

\* C5 amended: for all buffer and every scale >= 0, determine_max_radius does
\* not grow with n wherever both calls return.
C5_MonotoneForNonNegativeScale ==
    (IsMaxRadiusCall /\ ret.tag = "return" /\ args[3][1] >= 0) => LaterCallsNoLarger

\* a returned call with positive scale and buffer for which a call with more
\* circles returns a strictly smaller radius
C5_Witness ==
    /\ IsMaxRadiusCall
    /\ ret.tag = "return"
    /\ args[3][1] > 0
    /\ args[1][1] > 0
    /\ \E n2 \in (args[2] + 1)..MaxN :
          LET other == determine_max_radius(args[1], n2, args[3])
          IN  other.tag = "return" /\ RLess(other.value, ret.value)

IsRadiusCall == op = "determine_radius"

\* C6 as stated: with equalsize the result is max_radius; without it every
\* result lies in [0.01, max_radius], for every max_radius.
C6_RadiusInRangeForAllMax ==
    IsRadiusCall =>
        IF args[2] THEN ret.value = args[1]
        ELSE RLeq(MinRadius, ret.value) /\ RLeq(ret.value, args[1])

\* C6 amended: with equalsize the result is max_radius; without it the result
\* lies in [0.01, max_radius] when max_radius >= 0.01 and in [max_radius, 0.01]
\* when max_radius < 0.01.
C6_RadiusBetweenEnds ==
    IsRadiusCall =>
        IF args[2] THEN ret.value = args[1]
        ELSE IF RLeq(MinRadius, args[1])
             THEN RLeq(MinRadius, ret.value) /\ RLeq(ret.value, args[1])
             ELSE RLeq(args[1], ret.value) /\ RLeq(ret.value, MinRadius)

\* a random radius drawn strictly inside (0.01, max_radius)
C6_Witness ==
    /\ IsRadiusCall
    /\ ~ args[2]
    /\ RLess(MinRadius, ret.value)
    /\ RLess(ret.value, args[1])

-----------------------------------------------------------------------------
(* Shape factory *)

\* the enum shapes: CIRCLE, ELLIPSE, RECTANGLE
EnumKinds == {"Circle", "Ellipse", "Rectangle"}

\* names handed to createShape: the enum's, a class of the module without a
\* nested Factory, and a name the module does not define
Kinds == EnumKinds \cup {"Shape", "Square"}

\* keyword arguments of a createShape call
NoKwargs == <<>>
Kwargs == { NoKwargs,
            [material |-> Material],
            [centre |-> <<1, 1>>],
            [material |-> Material, centre |-> <<1, 1>>, radius |-> 1],
            [material |-> Material, centre |-> <<1, 1>>,
             short_axis |-> 1, long_axis |-> 2, angle |-> 0] }

Get(kwargs, key, default) == IF key \in DOMAIN kwargs THEN kwargs[key] ELSE default

\* Ellipse.Factory.create: Ellipse(**kwargs)
EllipseFactoryCreate(kwargs) ==
    IF "material" \notin DOMAIN kwargs
       \/ ~ (DOMAIN kwargs \subseteq {"material", "centre", "short_axis", "long_axis", "angle"})
    THEN Raise("TypeError")
    ELSE Return(Ellipse(kwargs.material, Get(kwargs, "centre", <<0, 0>>),
                        Get(kwargs, "short_axis", 0), Get(kwargs, "long_axis", 0),
                        Get(kwargs, "angle", 0)))

\* Circle.Factory.create: Circle(**kwargs)
CircleFactoryCreate(kwargs) ==
    IF "material" \notin DOMAIN kwargs
       \/ ~ (DOMAIN kwargs \subseteq {"material", "centre", "radius"})
    THEN Raise("TypeError")
    ELSE Return(Circle(kwargs.material, Get(kwargs, "centre", <<0, 0>>),
                       Get(kwargs, "radius", 0)))

\* Rectangle.Factory.create(self) takes no keyword, and Rectangle() calls
\* Shape.__init__ without its required material and centre
RectangleFactoryCreate(kwargs) ==
    IF DOMAIN kwargs # {}
    THEN Raise("TypeError")
    ELSE Raise("TypeError")

FactoryCreate(factory, kwargs) ==
    CASE factory.class = "Circle" -> CircleFactoryCreate(kwargs)
      [] factory.class = "Ellipse" -> EllipseFactoryCreate(kwargs)
      [] factory.class = "Rectangle" -> RectangleFactoryCreate(kwargs)

\* eval(shape + '.Factory()'): a fresh Factory instance of the named class
EvalFactory(shape, registry) ==
    IF shape \in {"Circle", "Ellipse", "Rectangle"}
    THEN Return([class |-> shape, id |-> Cardinality(DOMAIN registry) + 1])
    ELSE IF shape = "Shape"
         THEN Raise("AttributeError")
         ELSE Raise("NameError")

Put(registry, shape, factory) ==
    [k \in DOMAIN registry \cup {shape} |-> IF k = shape THEN factory ELSE registry[k]]

InitFactory ==
    /\ Idle
    /\ circles = <<>>
    /\ buffersize = 0
    /\ factories = <<>>
    /\ self = Circle(Material, <<0, 0>>, 0)
    /\ assigned = 0

\* ShapeFactory.createShape
CreateShape(shape, kwargs) ==
    /\ op' = "createShape"
    /\ args' = <<shape, kwargs>>
    /\ IF shape \notin DOMAIN factories
       THEN LET made == EvalFactory(shape, factories)
            IN  IF made.tag = "raise"
                THEN /\ factories' = factories
                     /\ ret' = made
                ELSE /\ factories' = Put(factories, shape, made.value)
                     /\ ret' = FactoryCreate(made.value, kwargs)
       ELSE /\ factories' = factories
            /\ ret' = FactoryCreate(factories[shape], kwargs)
    /\ UNCHANGED <<circles, buffersize, self, assigned>>

\* ShapeFactory.addFactory: factories.put does not exist on a dict
AddFactory(shape) ==
    /\ op' = "addFactory"
    /\ args' = <<shape>>
    /\ ret' = Raise("AttributeError")
    /\ UNCHANGED <<circles, buffersize, factories, self, assigned>>

NextFactory ==
    \/ \E shape \in Kinds, kwargs \in Kwargs : CreateShape(shape, kwargs)
    \/ \E shape \in Kinds : AddFactory(shape)

SpecFactory == InitFactory /\ [][NextFactory]_vars

\* keyword arguments a constructor of the kind can take
ParamsFit(shape, kwargs) ==
    CASE shape = "Circle" ->
           "material" \in DOMAIN kwargs /\ DOMAIN kwargs \subseteq {"material", "centre", "radius"}
      [] shape = "Ellipse" ->
           "material" \in DOMAIN kwargs
           /\ DOMAIN kwargs \subseteq {"material", "centre", "short_axis", "long_axis", "angle"}
      [] OTHER -> DOMAIN kwargs \subseteq {"material", "centre"}

\* C7: createShape, given parameters its kind's constructor can take, returns
\* a shape of the requested kind for each kind of the enumeration {Circle,
\* Ellipse, Rectangle} and fails for every other kind; a failing call leaves
\* the registry as it was, and an entry of the registry, once created, is
\* never replaced.
C7_CreateShapeContract ==
    [][ (op' = "createShape" /\ ParamsFit(args'[1], args'[2])) =>
          /\ args'[1] \in EnumKinds => (ret'.tag = "return" /\ ret'.value.kind = args'[1])
          /\ args'[1] \notin EnumKinds => ret'.tag = "raise"
          /\ ret'.tag = "raise" => factories' = factories
          /\ \A k \in DOMAIN factories :
                 k \in DOMAIN factories' /\ factories'[k] = factories[k] ]_vars

-----------------------------------------------------------------------------
(* Specification of one Circle object: construction, then radius writes,   *)
(* radius reads and perimeter_location in any order                         *)

\* Circle.perimeter_location
perimeter_location(c) == <<c.centre[1] + Radius(c), c.centre[1]>>

InitCircle ==
    /\ Idle
    /\ circles = <<>>
    /\ buffersize = 0
    /\ factories = <<>>
    /\ \E x \in 0..MaxCentre, y \in 0..MaxCentre, r \in 0..MaxValue :
          /\ self = Circle(Material, <<x, y>>, r)
          /\ assigned = r

\* self.radius = value
AssignRadius(value) ==
    /\ op' = "radius.setter"
    /\ args' = <<value>>
    /\ self' = SetRadius(self, value)
    /\ assigned' = value
    /\ ret' = Return("None")
    /\ UNCHANGED <<circles, buffersize, factories>>

\* self.radius
ReadRadius ==
    /\ op' = "radius.getter"
    /\ args' = <<>>
    /\ ret' = Return(Radius(self))
    /\ UNCHANGED <<circles, buffersize, factories, self, assigned>>

PerimeterLocation ==
    /\ op' = "perimeter_location"
    /\ args' = <<>>
    /\ ret' = Return(perimeter_location(self))
    /\ UNCHANGED <<circles, buffersize, factories, self, assigned>>

NextCircle ==
    \/ \E value \in 0..MaxValue : AssignRadius(value)
    \/ ReadRadius
    \/ PerimeterLocation

SpecCircle == InitCircle /\ [][NextCircle]_vars

\* C8: after construction and after any sequence of assignments to radius,
\* short_axis = long_axis = the radius most recently given (the constructor's
\* if none was assigned), and the radius getter returns that value.
C8_AxesFollowRadius ==
    /\ self.short_axis = assigned
    /\ self.long_axis = assigned
    /\ op = "radius.getter" => ret.value = assigned

\* the radius setter has just written the largest radius to both axes
C8_Witness ==
    /\ op = "radius.setter"
    /\ args[1] = MaxValue
    /\ self.long_axis = MaxValue
    /\ self.short_axis = MaxValue

\* C10: perimeter_location returns a point at distance radius from the
\* centre, also when the centre's coordinates differ.
C10_PerimeterPointOnCircle ==
    op = "perimeter_location" =>
        SquaredDistance(ret.value, self.centre) = Radius(self) * Radius(self)

-----------------------------------------------------------------------------
(* Exporter *)

\* Ellipse.Area: math.pi * short_axis * long_axis, kept as a multiple of pi
Area(shape) == [pi_times |-> shape.short_axis * shape.long_axis]

\* Ellipse.AspectRatio: short_axis / long_axis
AspectRatio(shape) ==
    IF shape.long_axis = 0
    THEN Raise("ZeroDivisionError")
    ELSE Return(<<shape.short_axis, shape.long_axis>>)

\* Circle.__str__: the fields of one report line
CircleStr(shape) ==
    Return(<<shape.centre[1], shape.centre[2], Radius(shape), Area(shape)>>)

\* Ellipse.__str__
EllipseStr(shape) ==
    LET ratio == AspectRatio(shape)
    IN  IF ratio.tag = "raise" THEN ratio
        ELSE Return(<<shape.centre[1], shape.centre[2], shape.long_axis, shape.short_axis,
                      ratio.value, Area(shape), shape.angle>>)

\* '{0}\n'.format(shape): the __str__ of the object's own class
Str(shape) == IF shape.kind = "Circle" THEN CircleStr(shape) ELSE EllipseStr(shape)

MatrixHeader ==
    << "**Matrix:",
       "**Bottom left corner X, Bottom left corner Y, height, width",
       "0, 0, 1, 1",
       "" >>

CircleHeader ==
    MatrixHeader \o << "**Circle distribution", "**Centre X, centre Y, radius, area" >>

EllipseHeader ==
    MatrixHeader \o << "**Ellipse distribution",
                       "**Centre X, centre Y, long axis, short axis, aspect ratio, area, orientation(rad)" >>

\* the loop "for shape in shapes: output_str += ..." from the report so far
RECURSIVE AppendShapes(_, _)
AppendShapes(output, shapes) ==
    IF shapes = <<>> THEN Return(output)
    ELSE LET line == Str(Head(shapes))
         IN  IF line.tag = "raise" THEN line
             ELSE AppendShapes(Append(output, line.value), Tail(shapes))

\* Circle.ExportInclusions
CircleExportInclusions(shapes) == AppendShapes(CircleHeader, shapes)

\* Ellipse.ExportInclusions
EllipseExportInclusions(shapes) == AppendShapes(EllipseHeader, shapes)

-----------------------------------------------------------------------------
(* Specification of the exporter: any collection of constructed shapes *)

ExportShapes ==
    { Circle(Material, <<x, x>>, r) : x \in 0..1, r \in 0..1 }
    \cup { Ellipse(Material, <<x, x>>, sa, la, 0) : x \in 0..1, sa \in 0..1, la \in 0..1 }

InitExport ==
    /\ Idle
    /\ circles \in SeqsUpTo(ExportShapes, MaxShapes)
    /\ buffersize = 0
    /\ factories = <<>>
    /\ self = Circle(Material, <<0, 0>>, 0)
    /\ assigned = 0

ExportCircles ==
    /\ op' = "Circle.ExportInclusions"
    /\ args' = <<>>
    /\ ret' = CircleExportInclusions(circles)
    /\ UNCHANGED <<circles, buffersize, factories, self, assigned>>

ExportEllipses ==
    /\ op' = "Ellipse.ExportInclusions"
    /\ args' = <<>>
    /\ ret' = EllipseExportInclusions(circles)
    /\ UNCHANGED <<circles, buffersize, factories, self, assigned>>

NextExport == ExportCircles \/ ExportEllipses

SpecExport == InitExport /\ [][NextExport]_vars

AllOfKind(shapes, kind) == \A i \in 1..Len(shapes) : shapes[i].kind = kind

ReportOf(header) ==
    /\ ret.tag = "return"
    /\ Len(ret.value) = Len(header) + Len(circles)
    /\ SubSeq(ret.value, 1, Len(header)) = header
    /\ \A i \in 1..Len(circles) :
          /\ ret.value[Len(header) + i][1] = circles[i].centre[1]
          /\ ret.value[Len(header) + i][2] = circles[i].centre[2]
          /\ ret.value[Len(header) + i][3] = circles[i].long_axis

\* C9: ExportInclusions, in the Circle and in the Ellipse variant, never
\* fails: for every collection of shapes of its kind, ellipses with
\* long_axis = 0 included, it returns the header block followed by one line
\* per shape in the collection's order (the header alone when it is empty).
C9_ExportNeverFails ==
    /\ (op = "Circle.ExportInclusions" /\ AllOfKind(circles, "Circle")) => ReportOf(CircleHeader)
    /\ (op = "Ellipse.ExportInclusions" /\ AllOfKind(circles, "Ellipse")) => ReportOf(EllipseHeader)
====
